---- MODULE Spec2Model ----
(***************************************************************************)
(* Model of sdcm/cql_stress_cassandra_stress_thread.py:                    *)
(*   - create_stress_cmd: the rewriting of a cassandra-stress command line *)
(*     into the cql-stress-cassandra-stress dialect (character level);     *)
(*   - _run_cs_stress: one stress invocation on a loader: remote docker    *)
(*     context, stress command, metrics/event scopes, bounded run, return. *)
(* Strings are TLA+ strings; Len, SubSeq and \o act on them as on          *)
(* sequences of characters.                                                *)
(***************************************************************************)
EXTENDS Integers, Sequences, FiniteSets, TLC

\* ------------------------------------------------------------------------
\* Characters and string primitives (Python str / re semantics)
\* ------------------------------------------------------------------------

DigitChars == {"0", "1", "2", "3", "4", "5", "6", "7", "8", "9"}

LowerChars ==
    {"a", "b", "c", "d", "e", "f", "g", "h", "i", "j", "k", "l", "m",
     "n", "o", "p", "q", "r", "s", "t", "u", "v", "w", "x", "y", "z"}

UpperChars ==
    {"A", "B", "C", "D", "E", "F", "G", "H", "I", "J", "K", "L", "M",
     "N", "O", "P", "Q", "R", "S", "T", "U", "V", "W", "X", "Y", "Z"}

\* the regex class \w (ASCII part)
WordChars == LowerChars \cup UpperChars \cup DigitChars \cup {"_"}

\* the regex class \s and the separators of str.split(None), ASCII part:
\* space, \t, \n, \r, \f, \v (0x0b) and the separators 0x1c to 0x1f
SpaceChars ==
    {" ", "\t", "\n", "\r", "\f", "", "", "", "", ""}

\* s[i] of Python, 1-based; "" past either end
Ch(s, i) == IF i >= 1 /\ i <= Len(s) THEN SubSeq(s, i, i) ELSE ""

\* s[i-1:] of Python (the suffix that starts at the 1-based index i)
From(s, i) == SubSeq(s, i, Len(s))

\* s.startswith(lit, i-1)
StartsAt(s, i, lit) ==
    /\ i >= 1
    /\ i + Len(lit) - 1 <= Len(s)
    /\ SubSeq(s, i, i + Len(lit) - 1) = lit

\* str.lower() on one character
LowerOf(c) ==
    CASE c = "A" -> "a" [] c = "B" -> "b" [] c = "C" -> "c" [] c = "D" -> "d"
      [] c = "E" -> "e" [] c = "F" -> "f" [] c = "G" -> "g" [] c = "H" -> "h"
      [] c = "I" -> "i" [] c = "J" -> "j" [] c = "K" -> "k" [] c = "L" -> "l"
      [] c = "M" -> "m" [] c = "N" -> "n" [] c = "O" -> "o" [] c = "P" -> "p"
      [] c = "Q" -> "q" [] c = "R" -> "r" [] c = "S" -> "s" [] c = "T" -> "t"
      [] c = "U" -> "u" [] c = "V" -> "v" [] c = "W" -> "w" [] c = "X" -> "x"
      [] c = "Y" -> "y" [] c = "Z" -> "z" [] OTHER -> c

\* a literal of a pattern compiled with re.IGNORECASE matches at index i
\* (lit is given in lower case)
StartsAtNoCase(s, i, lit) ==
    /\ i >= 1
    /\ i + Len(lit) - 1 <= Len(s)
    /\ \A k \in 1..Len(lit) : LowerOf(Ch(s, i + k - 1)) = Ch(lit, k)

\* `sub in s`
Contains(s, sub) ==
    \E i \in 1..(Len(s) - Len(sub) + 1) : SubSeq(s, i, i + Len(sub) - 1) = sub

\* the first index >= i whose character is not in class (Len(s)+1 if none):
\* where a greedy [class]* that starts at i stops
RECURSIVE SkipWhile(_, _, _)
SkipWhile(s, i, class) ==
    IF i <= Len(s) /\ Ch(s, i) \in class
    THEN SkipWhile(s, i + 1, class)
    ELSE i

\* the least element of a non-empty set of integers
MinOf(S) == CHOOSE x \in S : \A y \in S : x <= y

\* the first index >= i at which old occurs in s, 0 if none: s.find(old, i-1)+1
Find(s, old, i) ==
    LET hits == {k \in i..(Len(s) - Len(old) + 1) : StartsAt(s, k, old)}
    IN  IF hits = {} THEN 0 ELSE MinOf(hits)

\* s[i-1:].replace(old, new): every non-overlapping occurrence, left to right
RECURSIVE ReplaceFrom(_, _, _, _)
ReplaceFrom(s, i, old, new) ==
    LET k == Find(s, old, i)
    IN  IF k = 0 THEN From(s, i)
        ELSE SubSeq(s, i, k - 1) \o new \o ReplaceFrom(s, k + Len(old), old, new)

\* s.replace(old, new), old non-empty
Replace(s, old, new) == ReplaceFrom(s, 1, old, new)

\* ", ".join-style: sep.join(items)
RECURSIVE Join(_, _)
Join(items, sep) ==
    IF Len(items) = 0 THEN ""
    ELSE IF Len(items) = 1 THEN items[1]
    ELSE items[1] \o sep \o Join(Tail(items), sep)

DigitOf(d) ==
    CASE d = 0 -> "0" [] d = 1 -> "1" [] d = 2 -> "2" [] d = 3 -> "3"
      [] d = 4 -> "4" [] d = 5 -> "5" [] d = 6 -> "6" [] d = 7 -> "7"
      [] d = 8 -> "8" [] d = 9 -> "9"

\* str(n) / "{}".format(n) of a non-negative int
RECURSIVE IntToStr(_)
IntToStr(n) ==
    IF n < 10 THEN DigitOf(n) ELSE IntToStr(n \div 10) \o DigitOf(n % 10)

\* ------------------------------------------------------------------------
\* create_stress_cmd: the rewrite rules
\* ------------------------------------------------------------------------

ToolName == "cql-stress-cassandra-stress"

\* r'(cql-stress-cassandra-stress [\w]+)': one past the match that starts at
\* i, 0 if the pattern does not match there
NoWarmupEnd(s, i) ==
    LET w == i + Len(ToolName) + 1          \* first character of [\w]+
    IN  IF StartsAt(s, i, ToolName \o " ") /\ Ch(s, w) \in WordChars
        THEN SkipWhile(s, w, WordChars)
        ELSE 0

\* re.sub(r'(cql-stress-cassandra-stress [\w]+)', r'\1 no-warmup', s), from i
RECURSIVE SubNoWarmup(_, _)
SubNoWarmup(s, i) ==
    LET hits == {k \in i..Len(s) : NoWarmupEnd(s, k) # 0}
    IN  IF hits = {} THEN From(s, i)
        ELSE LET k == MinOf(hits)
                 e == NoWarmupEnd(s, k)
             IN  SubSeq(s, i, e - 1) \o " no-warmup" \o SubNoWarmup(s, e)

\* r' (\'?)n=[\s]*fixed\(([0-9]+)\)(\'?)' with re.IGNORECASE, tried at i:
\* [matched, opening quote, digits, closing quote, one past the match]
ColFixedAt(s, i) ==
    LET q1 == IF Ch(s, i + 1) = "'" THEN "'" ELSE ""
        n  == i + 1 + Len(q1)                    \* where n= must start
        f  == SkipWhile(s, n + 2, SpaceChars)    \* where fixed( must start
        d  == f + 6                              \* first digit
        e  == SkipWhile(s, d, DigitChars)        \* one past the digits
        q2 == IF Ch(s, e + 1) = "'" THEN "'" ELSE ""
    IN  IF /\ Ch(s, i) = " "
           /\ StartsAtNoCase(s, n, "n=")
           /\ StartsAtNoCase(s, f, "fixed(")
           /\ e > d
           /\ Ch(s, e) = ")"
        THEN [ok |-> TRUE, q1 |-> q1, digits |-> SubSeq(s, d, e - 1), q2 |-> q2,
              end |-> e + 1 + Len(q2)]
        ELSE [ok |-> FALSE, q1 |-> "", digits |-> "", q2 |-> "", end |-> 0]

\* re.sub(r' (\'?)n=[\s]*fixed\(([0-9]+)\)(\'?)', r' \1n=\2\3', s,
\*        flags=re.IGNORECASE), from i
RECURSIVE SubColFixed(_, _)
SubColFixed(s, i) ==
    LET hits == {k \in i..Len(s) : Ch(s, k) = " " /\ ColFixedAt(s, k).ok}
    IN  IF hits = {} THEN From(s, i)
        ELSE LET k == MinOf(hits)
                 m == ColFixedAt(s, k)
             IN  SubSeq(s, i, k - 1) \o " " \o m.q1 \o "n=" \o m.digits \o m.q2
                     \o SubColFixed(s, m.end)

\* r' fixed=[\s]*([0-9]+/s)' tried at i: one past the match, 0 if none
RateFixedEnd(s, i) ==
    LET d == SkipWhile(s, i + 7, SpaceChars)     \* first digit
        e == SkipWhile(s, d, DigitChars)         \* one past the digits
    IN  IF StartsAt(s, i, " fixed=") /\ e > d /\ StartsAt(s, e, "/s")
        THEN e + 2 ELSE 0

\* re.sub(r' fixed=[\s]*([0-9]+/s)', r' throttle=\1 fixed', s), from i
RECURSIVE SubRateFixed(_, _)
SubRateFixed(s, i) ==
    LET hits == {k \in i..Len(s) : RateFixedEnd(s, k) # 0}
    IN  IF hits = {} THEN From(s, i)
        ELSE LET k == MinOf(hits)
                 e == RateFixedEnd(s, k)
                 d == SkipWhile(s, k + 7, SpaceChars)
             IN  SubSeq(s, i, k - 1) \o " throttle=" \o SubSeq(s, d, e - 1)
                     \o " fixed" \o SubRateFixed(s, e)

\* r' seq=[\s]*([\d]+\.\.[\d]+)' tried at i: one past the match, 0 if none
PopSeqEnd(s, i) ==
    LET a  == SkipWhile(s, i + 5, SpaceChars)    \* first digit of <a>
        ae == SkipWhile(s, a, DigitChars)        \* one past <a>
        b  == ae + 2                             \* first digit of <b>
        be == SkipWhile(s, b, DigitChars)        \* one past <b>
    IN  IF StartsAt(s, i, " seq=") /\ ae > a /\ StartsAt(s, ae, "..") /\ be > b
        THEN be ELSE 0

\* re.sub(r' seq=[\s]*([\d]+\.\.[\d]+)', r" 'dist=SEQ(\1)'", s), from i
RECURSIVE SubPopSeq(_, _)
SubPopSeq(s, i) ==
    LET hits == {k \in i..Len(s) : PopSeqEnd(s, k) # 0}
    IN  IF hits = {} THEN From(s, i)
        ELSE LET k == MinOf(hits)
                 e == PopSeqEnd(s, k)
                 a == SkipWhile(s, k + 5, SpaceChars)
             IN  SubSeq(s, i, k - 1) \o " 'dist=SEQ(" \o SubSeq(s, a, e - 1) \o ")'"
                     \o SubPopSeq(s, e)

\* lines 44-47
rule_no_warmup(cmd) ==
    IF ~Contains(cmd, "no-warmup") THEN SubNoWarmup(cmd, 1) ELSE cmd

\* a faulty variant that lets a keyspace= of the command win over the
\* configured name
rule_keyspace_respects_existing(cmd, keyspace_name, keyspace_idx) ==
    IF Contains(cmd, "keyspace=")
    THEN cmd
    ELSE Replace(cmd, " -schema ",
                 " -schema keyspace="
                     \o (IF keyspace_name # "" THEN keyspace_name
                         ELSE "keyspace" \o IntToStr(keyspace_idx))
                     \o " ")

\* lines 49-54
rule_keyspace(cmd, keyspace_name, keyspace_idx) ==
    IF keyspace_name # ""
    THEN Replace(cmd, " -schema ", " -schema keyspace=" \o keyspace_name \o " ")
    ELSE IF ~Contains(cmd, "keyspace=")
         THEN Replace(cmd, " -schema ",
                      " -schema keyspace=keyspace" \o IntToStr(keyspace_idx) \o " ")
         ELSE cmd

\* a faulty variant that injects the compaction fragment although the
\* command has one
rule_compaction_unguarded(cmd, compaction_strategy) ==
    IF compaction_strategy # ""
    THEN Replace(cmd, " -schema ",
                 " -schema 'compaction(strategy=" \o compaction_strategy \o ")' ")
    ELSE cmd

\* lines 56-58
rule_compaction(cmd, compaction_strategy) ==
    IF compaction_strategy # "" /\ ~Contains(cmd, "compaction(")
    THEN Replace(cmd, " -schema ",
                 " -schema 'compaction(strategy=" \o compaction_strategy \o ")' ")
    ELSE cmd

\* lines 60-67
rule_col(cmd) == IF Contains(cmd, "-col") THEN SubColFixed(cmd, 1) ELSE cmd

\* a faulty variant that leaves the rate specifications as they are
rule_rate_skipped(cmd) == cmd

\* lines 69-74
rule_rate(cmd) == IF Contains(cmd, "-rate") THEN SubRateFixed(cmd, 1) ELSE cmd

\* a faulty variant that rewrites seq= although the command has no -pop
rule_pop_unguarded(cmd) == SubPopSeq(cmd, 1)

\* lines 76-80
rule_pop(cmd) == IF Contains(cmd, "-pop") THEN SubPopSeq(cmd, 1) ELSE cmd

\* a faulty variant that appends the nodes although the command has a -node
\* flag
node_rule_applies_ignoring_flag(cmd, node_list) == Len(node_list) > 0

\* line 82: the guard of the -node rule
node_rule_applies(cmd, node_list) ==
    Len(node_list) > 0 /\ ~Contains(cmd, "-node")

\* a faulty variant that writes the qualifier although no datacenter was
\* found
rule_node_always_qualified(cmd, node_list, multi_region, loader_dc) ==
    IF node_rule_applies(cmd, node_list)
    THEN cmd \o " -node "
             \o (IF multi_region THEN "datacenter=" \o loader_dc \o " " ELSE "")
             \o Join(node_list, ",")
    ELSE cmd

\* lines 82-96; loader_dc is datacenter_name_per_region.get(loader.region),
\* "" when the lookup has no entry
rule_node(cmd, node_list, multi_region, loader_dc) ==
    IF node_rule_applies(cmd, node_list)
    THEN cmd \o " -node "
             \o (IF multi_region /\ loader_dc # ""
                 THEN "datacenter=" \o loader_dc \o " " ELSE "")
             \o Join(node_list, ",")
    ELSE cmd

\* lines 42-80: the command after the rules that precede the -node rule
before_node_rule(cfg, keyspace_idx) ==
    rule_pop(rule_rate(rule_col(
        rule_compaction(
            rule_keyspace(rule_no_warmup(cfg.stress_cmd),
                          cfg.keyspace_name, keyspace_idx),
            cfg.compaction_strategy))))

\* lines 84-93: what create_stress_cmd hands to LOGGER.error
create_stress_cmd_errors(cfg, keyspace_idx, loader_dc) ==
    IF /\ node_rule_applies(before_node_rule(cfg, keyspace_idx), cfg.node_list)
       /\ cfg.multi_region
       /\ loader_dc = ""
    THEN <<"Not found datacenter for loader region">>
    ELSE <<>>

\* lines 41-97
create_stress_cmd(cfg, keyspace_idx, loader_dc) ==
    rule_node(before_node_rule(cfg, keyspace_idx),
              cfg.node_list, cfg.multi_region, loader_dc)

\* ------------------------------------------------------------------------
\* _run_cs_stress: values
\* ------------------------------------------------------------------------

\* Python's None, and a local name that has not been assigned
None == "None"
Unbound == "<unbound>"

\* the value cmd_runner.run returns when the remote command ends normally
RunResult == "Result(exited=0)"

\* what cmd_runner.run raises: transport fault, unexpected exit, hard timeout
RunExceptions == {"TransportError", "UnexpectedExit", "CommandTimedOut"}

\* the slots of the harness' thread pool, one _run_cs_stress call each
Invs == {1, 2}

\* self.shell_marker (set by the base class)
ShellMarker == "marker"

\* loader.region and loader.logdir of the loader with index loader_idx
LoaderRegion == "eu-west"

LoaderLogdir(loader_idx) == "/logs/loader-" \o IntToStr(loader_idx)

\* line 107-108 can be evaluated: the tool name occurs in the command and a
\* token follows it (otherwise [1] or [0] raises IndexError)
has_stress_cmd_opt(cmd) ==
    LET k == Find(cmd, ToolName, 1)
    IN  /\ k # 0
        /\ SkipWhile(cmd, k + Len(ToolName), SpaceChars) <= Len(cmd)

\* lines 107-108: self.stress_cmd.split(ToolName, 1)[1].split(None, 1)[0]
stress_cmd_opt(cmd) ==
    LET k == Find(cmd, ToolName, 1)
        b == SkipWhile(cmd, k + Len(ToolName), SpaceChars)
        stops == {j \in b..Len(cmd) : Ch(cmd, j) \in SpaceChars}
        e == IF stops = {} THEN Len(cmd) + 1 ELSE MinOf(stops)
    IN  SubSeq(cmd, b, e - 1)

\* self._build_log_file_id(loader_idx, cpu_idx, keyspace_idx)
build_log_file_id(id) ==
    "l" \o IntToStr(id.loader_idx) \o "-c" \o IntToStr(id.cpu_idx)
        \o "-k" \o IntToStr(id.keyspace_idx)

\* a faulty variant that names the log file after the subcommand only
log_file_name_without_id(cmd, id) ==
    LoaderLogdir(id.loader_idx) \o "/" \o "cql-stress-cassandra-stress-"
        \o stress_cmd_opt(cmd) \o ".log"

\* lines 110-113
log_file_name_of(cmd, id) ==
    LoaderLogdir(id.loader_idx) \o "/" \o "cql-stress-cassandra-stress-"
        \o stress_cmd_opt(cmd) \o "-" \o build_log_file_id(id) \o ".log"

\* line 132
tag_of(id) ==
    "TAG: loader_idx:" \o IntToStr(id.loader_idx) \o "-cpu_idx:"
        \o IntToStr(id.cpu_idx) \o "-keyspace_idx:" \o IntToStr(id.keyspace_idx)

\* lines 134-138
node_cmd_of(stress_num, id, translated) ==
    "echo " \o tag_of(id) \o "; STRESS_TEST_MARKER=" \o ShellMarker \o "; "
        \o (IF stress_num > 1
            THEN "taskset -c " \o IntToStr(id.cpu_idx) \o " " ELSE "")
        \o translated

\* a faulty variant that takes the margin off the timeout
hard_timeout_shortened(timeout) == timeout - ((timeout * 5) \div 100)

\* a faulty variant that adds no margin to the timeout
hard_timeout_no_margin(timeout) == timeout

\* line 150: self.timeout + int(self.timeout * 0.05), timeout a non-negative
\* int (int() truncates the float product, which is floor(timeout / 20))
hard_timeout_of(timeout) == timeout + ((timeout * 5) \div 100)

\* datacenter_name_per_region.get(loader.region), "" for a missing entry
dc_get(dc_map, region) ==
    IF region \in DOMAIN dc_map THEN dc_map[region] ELSE ""

\* line 155-156: self.configure_event_on_failure(stress_event, exc) given the
\* exception the handler caught
configure_event_on_failure(stress_event, exc) ==
    [stress_event EXCEPT !.errors = Append(@, exc)]

\* a faulty variant that reports a generic error in place of the caught exception
handler_cause_generic(exc) == "Exception"

\* line 154-156: what the except clause hands to configure_event_on_failure
handler_cause(exc) == exc

\* ------------------------------------------------------------------------
\* Bounds and inputs
\* ------------------------------------------------------------------------

\* self.timeout ranges over 0..MaxTimeout
MaxTimeout == 21

\* keyspace_idx ranges over 1..MaxKeyspaceIdx
MaxKeyspaceIdx == 2

NodeA == "10.0.0.1"
NodeB == "10.0.0.2"

\* thread configurations of the orchestration specification
RunConfigs ==
    { [stress_cmd |-> "cql-stress-cassandra-stress write cl=QUORUM n=100 -schema 'replication(factor=3)' -rate fixed=500/s -col n=FIXED(5) -pop seq=1..100",
       keyspace_name |-> "", compaction_strategy |-> "LCS",
       node_list |-> <<NodeA, NodeB>>, multi_region |-> TRUE],
      [stress_cmd |-> "cql-stress-cassandra-stress read no-warmup -schema keyspace=foo -node 10.0.0.9",
       keyspace_name |-> "ks1", compaction_strategy |-> "",
       node_list |-> <<NodeA>>, multi_region |-> FALSE],
      [stress_cmd |-> "cql-stress-cassandra-stress mixed duration=5m -schema ",
       keyspace_name |-> "", compaction_strategy |-> "",
       node_list |-> <<>>, multi_region |-> FALSE],
      [stress_cmd |-> "cassandra-stress write n=100",
       keyspace_name |-> "", compaction_strategy |-> "",
       node_list |-> <<NodeA>>, multi_region |-> TRUE] }

\* what get_datacenter_name_per_region can return
DcMaps == { [r \in {} |-> ""], [r \in {LoaderRegion} |-> "dc1"] }

\* (loader_idx, cpu_idx, keyspace_idx) of a call
Identities ==
    [loader_idx : {0, 1}, cpu_idx : {0}, keyspace_idx : 1..MaxKeyspaceIdx]

\* ------------------------------------------------------------------------
\* State
\* ------------------------------------------------------------------------

VARIABLES
    self,              \* the thread object: stress_cmd, keyspace_name,
                       \* compaction_strategy, node_list, multi_region
                       \* (loader_set.test_config.MULTI_REGION), timeout, stress_num
    dc_map,            \* what get_datacenter_name_per_region returns
    ident,             \* per call: [loader_idx, cpu_idx, keyspace_idx]
    pc,                \* per call: the next step of _run_cs_stress
    log_file_name,     \* per call: local log_file_name
    stress_cmd,        \* per call: local stress_cmd (line 129)
    node_cmd,          \* per call: local node_cmd
    hard_timeout,      \* per call: local hard_timeout, -1 before line 150
    soft_timeout,      \* per call: timeout of the SoftTimeoutContext, -1 if none
    run_args,          \* per call: arguments of cmd_runner.run, once called
    result,            \* per call: local result
    caught,            \* per call: exception bound by `except ... as exc`
    pending,           \* per call: exception unwinding through the with block
    acquired,          \* per call: RemoteDocker contexts created
    released,          \* per call: RemoteDocker.__exit__ calls
    exporter,          \* per call: state of the metrics exporter scope
    cs_stress_event,   \* per call: the CqlStressCassandraStressEvent
    published,         \* per call: outcomes the event sink received
    outcome,           \* per call: what the caller got (returned / raised)
    trace,             \* per call: history of the steps taken
    again              \* per call: create_stress_cmd applied to its own output

vars == <<self, dc_map, ident, pc, log_file_name, stress_cmd, node_cmd,
          hard_timeout, soft_timeout, run_args, result, caught, pending,
          acquired, released, exporter, cs_stress_event, published, outcome,
          trace, again>>

NoEvent == [state |-> "none", stress_cmd |-> "", log_file_name |-> "",
            errors |-> <<>>]

NoRunArgs == [called |-> FALSE, cmd |-> "", timeout |-> -1, log_file |-> "",
              retry |-> 0]

NoOutcome == [kind |-> "none", exc |-> None, result |-> None]

\* the state of the calls before any has run; those in started are submitted
InitCalls(started, first_pc) ==
    /\ pc = [i \in Invs |-> IF i \in started THEN first_pc ELSE "idle"]
    /\ log_file_name = [i \in Invs |-> ""]
    /\ stress_cmd = [i \in Invs |-> Unbound]
    /\ node_cmd = [i \in Invs |-> Unbound]
    /\ hard_timeout = [i \in Invs |-> -1]
    /\ soft_timeout = [i \in Invs |-> -1]
    /\ run_args = [i \in Invs |-> NoRunArgs]
    /\ result = [i \in Invs |-> Unbound]
    /\ caught = [i \in Invs |-> None]
    /\ pending = [i \in Invs |-> None]
    /\ acquired = [i \in Invs |-> 0]
    /\ released = [i \in Invs |-> 0]
    /\ exporter = [i \in Invs |-> "none"]
    /\ cs_stress_event = [i \in Invs |-> NoEvent]
    /\ published = [i \in Invs |-> <<>>]
    /\ outcome = [i \in Invs |-> NoOutcome]
    /\ trace = [i \in Invs |-> <<>>]
    /\ again = [i \in Invs |-> Unbound]

\* one thread, one call submitted
Init ==
    /\ \E c \in RunConfigs, t \in 0..MaxTimeout, n \in {1, 2} :
          self = [stress_cmd |-> c.stress_cmd, keyspace_name |-> c.keyspace_name,
                  compaction_strategy |-> c.compaction_strategy,
                  node_list |-> c.node_list, multi_region |-> c.multi_region,
                  timeout |-> t, stress_num |-> n]
    /\ dc_map \in DcMaps
    /\ \E id \in Identities : ident = [i \in Invs |-> id]
    /\ InitCalls({1}, "start")

\* ------------------------------------------------------------------------
\* _run_cs_stress: steps
\* ------------------------------------------------------------------------

\* the call moves to label to and records step in its history
Goto(i, to, step) ==
    /\ pc' = [pc EXCEPT ![i] = to]
    /\ trace' = [trace EXCEPT ![i] = Append(@, step)]

\* exception exc leaves _run_cs_stress and reaches the caller
Propagate(i, exc) ==
    outcome' = [outcome EXCEPT ![i] = [kind |-> "raised", exc |-> exc, result |-> None]]

\* a faulty variant that runs create_stress_cmd without a RemoteDocker context
step_after_prepare_unprovisioned == "translate"

\* line 123 follows line 121: the context is created before anything else
step_after_prepare == "provision"

\* lines 104-121: log directory, tool subcommand, log file name, cpu options
Prepare(i) ==
    /\ pc[i] = "start"
    /\ \/ /\ has_stress_cmd_opt(self.stress_cmd)
          /\ log_file_name' = [log_file_name EXCEPT
                                 ![i] = log_file_name_of(self.stress_cmd, ident[i])]
          /\ Goto(i, step_after_prepare, "prepare")
          /\ UNCHANGED outcome
       \/ /\ ~has_stress_cmd_opt(self.stress_cmd)
          /\ Propagate(i, "IndexError")
          /\ Goto(i, "done", "prepare_raised")
          /\ UNCHANGED log_file_name
    /\ UNCHANGED <<self, dc_map, ident, stress_cmd, node_cmd, hard_timeout,
                   soft_timeout, run_args, result, caught, pending, acquired,
                   released, exporter, cs_stress_event, published, again>>

\* lines 123-128: cmd_runner = cleanup_context = RemoteDocker(...); the
\* constructor starts the container, or raises when it cannot be started
Provision(i) ==
    /\ pc[i] = "provision"
    /\ \/ /\ acquired' = [acquired EXCEPT ![i] = @ + 1]
          /\ Goto(i, "translate", "provision")
          /\ UNCHANGED outcome
       \/ /\ Propagate(i, "ProvisioningFailure")
          /\ Goto(i, "done", "provision_raised")
          /\ UNCHANGED acquired
    /\ UNCHANGED <<self, dc_map, ident, log_file_name, stress_cmd, node_cmd,
                   hard_timeout, soft_timeout, run_args, result, caught, pending,
                   released, exporter, cs_stress_event, published, again>>

\* line 129 reaches line 87: get_datacenter_name_per_region is called
calls_dc_lookup(i) ==
    /\ node_rule_applies(before_node_rule(self, ident[i].keyspace_idx),
                         self.node_list)
    /\ self.multi_region

\* a faulty variant that stores the translated command in the thread object
self_after_translate_stored(i) ==
    [self EXCEPT !.stress_cmd = create_stress_cmd(self, ident[i].keyspace_idx,
                                                  dc_get(dc_map, LoaderRegion))]

\* lines 42-97: create_stress_cmd binds the local stress_cmd to
\* self.stress_cmd and rebinds only the local (str is immutable); the thread
\* object after the call
self_after_translate(i) == self

\* line 129: stress_cmd = self.create_stress_cmd(cmd_runner, keyspace_idx,
\* loader); the datacenter lookup of line 87 queries the cluster and may raise
Translate(i) ==
    /\ pc[i] = "translate"
    /\ \/ /\ stress_cmd' = [stress_cmd EXCEPT
                              ![i] = create_stress_cmd(self, ident[i].keyspace_idx,
                                                       dc_get(dc_map, LoaderRegion))]
          /\ self' = self_after_translate(i)
          /\ Goto(i, "build", "translate")
          /\ UNCHANGED outcome
       \/ /\ calls_dc_lookup(i)
          /\ Propagate(i, "LookupError")
          /\ Goto(i, "done", "translate_raised")
          /\ UNCHANGED <<self, stress_cmd>>
    /\ UNCHANGED <<dc_map, ident, log_file_name, node_cmd, hard_timeout,
                   soft_timeout, run_args, result, caught, pending, acquired,
                   released, exporter, cs_stress_event, published, again>>

\* lines 132-138: tag and node_cmd
BuildNodeCmd(i) ==
    /\ pc[i] = "build"
    /\ node_cmd' = [node_cmd EXCEPT
                      ![i] = node_cmd_of(self.stress_num, ident[i], stress_cmd[i])]
    /\ Goto(i, "enter_context", "build")
    /\ UNCHANGED <<self, dc_map, ident, log_file_name, stress_cmd, hard_timeout,
                   soft_timeout, run_args, result, caught, pending, acquired,
                   released, exporter, cs_stress_event, published, outcome, again>>

\* line 140: `with cleanup_context` enters the RemoteDocker context
EnterContext(i) ==
    /\ pc[i] = "enter_context"
    /\ Goto(i, "enter_exporter", "enter_context")
    /\ UNCHANGED <<self, dc_map, ident, log_file_name, stress_cmd, node_cmd,
                   hard_timeout, soft_timeout, run_args, result, caught, pending,
                   acquired, released, exporter, cs_stress_event, published,
                   outcome, again>>

\* lines 141-145: the exporter is constructed and entered; if that raises,
\* the with statement leaves the context entered before it
EnterExporter(i) ==
    /\ pc[i] = "enter_exporter"
    /\ \/ /\ exporter' = [exporter EXCEPT ![i] = "entered"]
          /\ Goto(i, "enter_event", "enter_exporter")
          /\ UNCHANGED pending
       \/ /\ pending' = [pending EXCEPT ![i] = "ExporterError"]
          /\ Goto(i, "exit_context", "exporter_raised")
          /\ UNCHANGED exporter
    /\ UNCHANGED <<self, dc_map, ident, log_file_name, stress_cmd, node_cmd,
                   hard_timeout, soft_timeout, run_args, result, caught, acquired,
                   released, cs_stress_event, published, outcome, again>>

\* a faulty variant that hands the local stress_cmd of line 129 to the event
new_event_translated(i) ==
    [state |-> "begun", stress_cmd |-> stress_cmd[i],
     log_file_name |-> log_file_name[i], errors |-> <<>>]

\* the event line 146-147 constructs
new_event(i) ==
    [state |-> "begun", stress_cmd |-> self.stress_cmd,
     log_file_name |-> log_file_name[i], errors |-> <<>>]

\* lines 146-147: the event is constructed and entered; if that raises, the
\* with statement leaves the exporter and the context
EnterEvent(i) ==
    /\ pc[i] = "enter_event"
    /\ \/ /\ cs_stress_event' = [cs_stress_event EXCEPT ![i] = new_event(i)]
          /\ Goto(i, "try", "enter_event")
          /\ UNCHANGED pending
       \/ /\ pending' = [pending EXCEPT ![i] = "EventError"]
          /\ Goto(i, "exit_exporter", "event_raised")
          /\ UNCHANGED cs_stress_event
    /\ UNCHANGED <<self, dc_map, ident, log_file_name, stress_cmd, node_cmd,
                   hard_timeout, soft_timeout, run_args, result, caught, acquired,
                   released, exporter, published, outcome, again>>

\* lines 150-151: hard_timeout, then the SoftTimeoutContext is entered
EnterTry(i) ==
    /\ pc[i] = "try"
    /\ hard_timeout' = [hard_timeout EXCEPT ![i] = hard_timeout_of(self.timeout)]
    /\ soft_timeout' = [soft_timeout EXCEPT ![i] = self.timeout]
    /\ Goto(i, "run", "enter_try")
    /\ UNCHANGED <<self, dc_map, ident, log_file_name, stress_cmd, node_cmd,
                   run_args, result, caught, pending, acquired, released,
                   exporter, cs_stress_event, published, outcome, again>>

\* the arguments of line 152-153
run_call(i) ==
    [called |-> TRUE, cmd |-> node_cmd[i], timeout |-> hard_timeout[i],
     log_file |-> log_file_name[i], retry |-> 0]

\* lines 152-153: cmd_runner.run is called with its arguments; the call
\* blocks while the remote command runs
CallRun(i) ==
    /\ pc[i] = "run"
    /\ run_args' = [run_args EXCEPT ![i] = run_call(i)]
    /\ Goto(i, "running", "call_run")
    /\ UNCHANGED <<self, dc_map, ident, log_file_name, stress_cmd, node_cmd,
                   hard_timeout, soft_timeout, result, caught, pending, acquired,
                   released, exporter, cs_stress_event, published, outcome,
                   again>>

\* lines 152-154: cmd_runner.run returns, and result is assigned, or raises,
\* and the except clause binds the exception
Run(i) ==
    /\ pc[i] = "running"
    /\ UNCHANGED run_args
    /\ \/ /\ result' = [result EXCEPT ![i] = RunResult]
          /\ Goto(i, "exit_event", "run")
          /\ UNCHANGED caught
       \/ \E exc \in RunExceptions :
             /\ caught' = [caught EXCEPT ![i] = exc]
             /\ Goto(i, "except", "run_raised")
             /\ UNCHANGED result
    /\ UNCHANGED <<self, dc_map, ident, log_file_name, stress_cmd, node_cmd,
                   hard_timeout, soft_timeout, pending, acquired, released,
                   exporter, cs_stress_event, published, outcome, again>>

\* lines 154-156: the handler
Except(i) ==
    /\ pc[i] = "except"
    /\ cs_stress_event' =
          [cs_stress_event EXCEPT
             ![i] = configure_event_on_failure(@, handler_cause(caught[i]))]
    /\ Goto(i, "exit_event", "except")
    /\ UNCHANGED <<self, dc_map, ident, log_file_name, stress_cmd, node_cmd,
                   hard_timeout, soft_timeout, run_args, result, caught, pending,
                   acquired, released, exporter, published, outcome, again>>

\* the outcome a closing event hands to the event sink
event_outcome(ev) ==
    [kind |-> IF ev.errors = <<>> THEN "success" ELSE "failure",
     errors |-> ev.errors, stress_cmd |-> ev.stress_cmd,
     log_file_name |-> ev.log_file_name]

\* a faulty variant that leaves the event open while the other scopes are
\* closed
ExitEventDeferred(i) ==
    /\ pc[i] = "exit_event"
    /\ Goto(i, "exit_exporter", "exit_event")
    /\ UNCHANGED <<self, dc_map, ident, log_file_name, stress_cmd, node_cmd,
                   hard_timeout, soft_timeout, run_args, result, caught, pending,
                   acquired, released, exporter, cs_stress_event, published,
                   outcome, again>>

\* line 140-147, leaving the with block: the event scope is closed first
ExitEvent(i) ==
    /\ pc[i] = "exit_event"
    /\ cs_stress_event' = [cs_stress_event EXCEPT ![i].state = "finalized"]
    /\ published' = [published EXCEPT
                       ![i] = Append(@, event_outcome(cs_stress_event[i]))]
    /\ Goto(i, "exit_exporter", "exit_event")
    /\ UNCHANGED <<self, dc_map, ident, log_file_name, stress_cmd, node_cmd,
                   hard_timeout, soft_timeout, run_args, result, caught, pending,
                   acquired, released, exporter, outcome, again>>

\* line 140-145, leaving the with block: then the exporter scope
ExitExporter(i) ==
    /\ pc[i] = "exit_exporter"
    /\ exporter' = [exporter EXCEPT ![i] = "exited"]
    /\ Goto(i, "exit_context", "exit_exporter")
    /\ UNCHANGED <<self, dc_map, ident, log_file_name, stress_cmd, node_cmd,
                   hard_timeout, soft_timeout, run_args, result, caught, pending,
                   acquired, released, cs_stress_event, published, outcome, again>>

\* a faulty variant that releases the context by hand after cmd_runner.run returned,
\* and so not when it raised
context_exit_on_return_only(i) ==
    IF caught[i] = None THEN released[i] + 1 ELSE released[i]

\* line 140: the with statement calls cleanup_context.__exit__ however the
\* block was left; the releases of call i after it
context_exit(i) == released[i] + 1

\* line 140, leaving the with block: last the RemoteDocker context; an
\* exception raised while entering the block then reaches the caller
ExitContext(i) ==
    /\ pc[i] = "exit_context"
    /\ released' = [released EXCEPT ![i] = context_exit(i)]
    /\ \/ /\ pending[i] = None
          /\ Goto(i, "return", "exit_context")
          /\ UNCHANGED outcome
       \/ /\ pending[i] # None
          /\ Propagate(i, pending[i])
          /\ Goto(i, "done", "exit_context")
    /\ UNCHANGED <<self, dc_map, ident, log_file_name, stress_cmd, node_cmd,
                   hard_timeout, soft_timeout, run_args, result, caught, pending,
                   acquired, exporter, cs_stress_event, published, again>>

\* line 158: return loader, result, cs_stress_event; reading a local that
\* was never assigned raises UnboundLocalError
Return(i) ==
    /\ pc[i] = "return"
    /\ \/ /\ result[i] # Unbound
          /\ outcome' = [outcome EXCEPT
                           ![i] = [kind |-> "returned", exc |-> None,
                                   result |-> result[i]]]
       \/ /\ result[i] = Unbound
          /\ Propagate(i, "UnboundLocalError")
    /\ Goto(i, "done", "return")
    /\ UNCHANGED <<self, dc_map, ident, log_file_name, stress_cmd, node_cmd,
                   hard_timeout, soft_timeout, run_args, result, caught, pending,
                   acquired, released, exporter, cs_stress_event, published,
                   again>>

Next ==
    \E i \in Invs :
        \/ Prepare(i)
        \/ Provision(i)
        \/ Translate(i)
        \/ BuildNodeCmd(i)
        \/ EnterContext(i)
        \/ EnterExporter(i)
        \/ EnterEvent(i)
        \/ EnterTry(i)
        \/ CallRun(i)
        \/ Run(i)
        \/ Except(i)
        \/ ExitEvent(i)
        \/ ExitExporter(i)
        \/ ExitContext(i)
        \/ Return(i)

Spec == Init /\ [][Next]_vars

\* one thread that runs two stress processes per loader (stress_num = 2)
\* and whose pool runs two calls of _run_cs_stress at once, each with an
\* identity of its own choice
InitConcurrent ==
    /\ \E c \in RunConfigs :
          self = [stress_cmd |-> c.stress_cmd, keyspace_name |-> c.keyspace_name,
                  compaction_strategy |-> c.compaction_strategy,
                  node_list |-> c.node_list, multi_region |-> c.multi_region,
                  timeout |-> MaxTimeout, stress_num |-> 2]
    /\ dc_map \in DcMaps
    /\ ident \in [Invs -> Identities]
    /\ InitCalls(Invs, "start")

SpecConcurrent == InitConcurrent /\ [][Next]_vars

\* ------------------------------------------------------------------------
\* create_stress_cmd as a function: applied to a command, then to its output
\* ------------------------------------------------------------------------

\* commands given to the translator
Commands ==
    { "cql-stress-cassandra-stress write -schema ",
      "cql-stress-cassandra-stress write cl=QUORUM n=100 -schema 'replication(factor=3)' -rate fixed=500/s -col n=FIXED(5) -pop seq=1..100",
      "cql-stress-cassandra-stress read -schema keyspace=foo -rate threads=10",
      "cql-stress-cassandra-stress read no-warmup -schema keyspace=foo -node 10.0.0.9",
      "cql-stress-cassandra-stress mixed duration=5m",
      "cql-stress-cassandra-stress write no-warmup -schema keyspace=keyspace1 'compaction(strategy=LCS)' -rate throttle=500/s fixed -col n=5 -pop 'dist=SEQ(1..100)' -node 10.0.0.1",
      "cql-stress-cassandra-stress write -col 'n=fixed( 10)' -rate fixed= 50/s -pop seq= 1..9",
      "cql-stress-cassandra-stress write n=FIXED(5) fixed=5/s seq=1..2",
      "cql-stress-cassandra-stress counter_write keyspace=ks2 -schema 'compaction(strategy=STCS)' ",
      "cql-stress-cassandra-stress write -schema",
      "cql-stress-cassandra-stress write -rate fixed=5/s=6/s",
      "cql-stress-cassandra-stress\twrite\n-rate fixed=\n50/s -col n=\r\tFIXED(3) -pop seq=\f1..9",
      "cql-stress-cassandra-stress write -rate 'fixed=7/s' threads=2 fixed=8/s",
      "cassandra-stress write -schema -rate fixed=10/s" }

\* one thread; create_stress_cmd is about to be called for one identity
InitTranslate ==
    /\ \E c \in Commands, k \in {"", "ks1"}, s \in {"", "LCS"},
          l \in {<<>>, <<NodeA>>, <<NodeA, NodeB>>}, m \in BOOLEAN :
          self = [stress_cmd |-> c, keyspace_name |-> k,
                  compaction_strategy |-> s, node_list |-> l,
                  multi_region |-> m, timeout |-> 0, stress_num |-> 1]
    /\ dc_map \in DcMaps
    /\ \E id \in Identities :
          /\ id.loader_idx = 0
          /\ ident = [i \in Invs |-> id]
    /\ InitCalls({1}, "call")

\* lines 41-97: create_stress_cmd(cmd_runner, keyspace_idx, loader)
TranslateOnce(i) ==
    /\ pc[i] = "call"
    /\ stress_cmd' = [stress_cmd EXCEPT
                        ![i] = create_stress_cmd(self, ident[i].keyspace_idx,
                                                 dc_get(dc_map, LoaderRegion))]
    /\ Goto(i, "translated", "translate")
    /\ UNCHANGED <<self, dc_map, ident, log_file_name, node_cmd, hard_timeout,
                   soft_timeout, run_args, result, caught, pending, acquired,
                   released, exporter, cs_stress_event, published, outcome, again>>

\* lines 41-97: create_stress_cmd of a thread that is configured alike and
\* whose stress_cmd is the command translated before
TranslateAgain(i) ==
    /\ pc[i] = "translated"
    /\ again' = [again EXCEPT
                   ![i] = create_stress_cmd([self EXCEPT !.stress_cmd = stress_cmd[i]],
                                            ident[i].keyspace_idx,
                                            dc_get(dc_map, LoaderRegion))]
    /\ Goto(i, "retranslated", "translate_again")
    /\ UNCHANGED <<self, dc_map, ident, log_file_name, stress_cmd, node_cmd,
                   hard_timeout, soft_timeout, run_args, result, caught, pending,
                   acquired, released, exporter, cs_stress_event, published,
                   outcome>>

NextTranslate == \E i \in Invs : TranslateOnce(i) \/ TranslateAgain(i)

SpecTranslate == InitTranslate /\ [][NextTranslate]_vars

\* ------------------------------------------------------------------------
\* Properties of _run_cs_stress
\* ------------------------------------------------------------------------

\* call i has taken the step named step
Did(i, step) == \E k \in 1..Len(trace[i]) : trace[i][k] = step

\* call i has entered the with block of line 140 and left it again
BlockLeft(i) == Did(i, "enter_context") /\ pc[i] \in {"return", "done"}

\* C1: every call whose run step was reached returns the triple (loader,
\* result, event) and raises nothing; when the run raised, the result is
\* absent and the event carries the failure.
C1_RunAlwaysReturnsTriple ==
    \A i \in Invs :
        (pc[i] = "done" /\ run_args[i].called) =>
            /\ outcome[i].kind = "returned"
            /\ (caught[i] # None =>
                  /\ outcome[i].result # RunResult
                  /\ cs_stress_event[i].errors # <<>>)

\* C2: a context is released at most once and only after it was acquired,
\* not before the with block is left, and exactly once when it has been left,
\* however it was left (return of the command, timeout, exception).
C2_ReleasedExactlyOncePerBlock ==
    \A i \in Invs :
        /\ released[i] <= acquired[i]
        /\ released[i] <= 1
        /\ (BlockLeft(i) => acquired[i] = 1 /\ released[i] = 1)
        /\ (~Did(i, "enter_context") => released[i] = 0)

C2_Witness ==
    \E i \in Invs :
        /\ pc[i] = "done"
        /\ caught[i] = "CommandTimedOut"
        /\ acquired[i] = 1
        /\ released[i] = 1

\* C3: once the handler has run for an exception E raised by the remote run,
\* the event holds E itself as its only error; when the call has ended the
\* context has been released and the failure published is the one of E.
C3_FailureEventKeepsCause ==
    \A i \in Invs :
        (caught[i] # None /\ Did(i, "except")) =>
            /\ cs_stress_event[i].errors = <<caught[i]>>
            /\ (pc[i] = "done" =>
                  /\ released[i] = 1
                  /\ Len(published[i]) = 1
                  /\ published[i][1].kind = "failure"
                  /\ published[i][1].errors = <<caught[i]>>)

C3_Witness ==
    \E i \in Invs :
        /\ pc[i] = "done"
        /\ caught[i] = "TransportError"
        /\ cs_stress_event[i].errors = <<"TransportError">>
        /\ released[i] = 1

\* the least integer >= 0.05 * t
Ceil5Percent(t) == (t + 19) \div 20

\* C4 as stated: the timeout handed to the remote run is T + ceil(0.05 * T).
C4_HardTimeoutRoundsUp ==
    \A i \in Invs :
        run_args[i].called =>
            run_args[i].timeout = self.timeout + Ceil5Percent(self.timeout)

\* C4 amended: the timeout handed to the remote run is T + floor(0.05 * T):
\* the margin m = hard - T is the integer with 20 * m <= T < 20 * (m + 1).
C4_HardTimeoutRoundsDown ==
    \A i \in Invs :
        run_args[i].called =>
            LET m == run_args[i].timeout - self.timeout
            IN  /\ 20 * m <= self.timeout
                /\ self.timeout < 20 * (m + 1)

C4_Witness ==
    \E i \in Invs :
        /\ run_args[i].called
        /\ self.timeout = 21
        /\ run_args[i].timeout = 22

\* C5: a call whose RemoteDocker context could not be started still publishes
\* one failure outcome and returns its triple to the caller.
C5_ProvisioningFailureReported ==
    \A i \in Invs :
        (pc[i] = "done" /\ Did(i, "provision_raised")) =>
            /\ Len(published[i]) = 1
            /\ published[i][1].kind = "failure"
            /\ outcome[i].kind = "returned"

\* C6 as stated: translation completes before the context is provisioned,
\* provisioning completes before the remote command runs.
C6_TranslateBeforeProvision ==
    \A i \in Invs :
        /\ (acquired[i] > 0 => stress_cmd[i] # Unbound)
        /\ (run_args[i].called => acquired[i] > 0)

\* the steps that may follow one another in a call
StepOrder ==
    { <<"prepare", "provision">>, <<"prepare", "provision_raised">>,
      <<"provision", "translate">>, <<"provision", "translate_raised">>,
      <<"translate", "build">>, <<"build", "enter_context">>,
      <<"enter_context", "enter_exporter">>, <<"enter_context", "exporter_raised">>,
      <<"enter_exporter", "enter_event">>, <<"enter_exporter", "event_raised">>,
      <<"enter_event", "enter_try">>,
      <<"enter_try", "call_run">>,
      <<"call_run", "run">>, <<"call_run", "run_raised">>,
      <<"run", "exit_event">>, <<"run_raised", "except">>,
      <<"except", "exit_event">>,
      <<"exit_event", "exit_exporter">>, <<"event_raised", "exit_exporter">>,
      <<"exit_exporter", "exit_context">>, <<"exporter_raised", "exit_context">>,
      <<"exit_context", "return">> }

\* the steps that hand the call back to its caller
LastSteps == {"prepare_raised", "provision_raised", "translate_raised", "return"}

\* C6 amended: a call takes its steps in the fixed order prepare, provision,
\* translate, build, enter the with block, run, (handler,) leave the with
\* block, return; the context is provisioned before the command is
\* translated, the command is translated before it is run; a step is left
\* out only after a step raised, and nothing follows the step that hands the
\* call back.
C6_StepsInCodeOrder ==
    \A i \in Invs :
        LET tr == trace[i]
        IN  /\ Len(tr) >= 1 => tr[1] \in {"prepare", "prepare_raised"}
            /\ \A k \in 1..(Len(tr) - 1) :
                  /\ <<tr[k], tr[k + 1]>> \in StepOrder
                  /\ tr[k] \notin LastSteps
            /\ (stress_cmd[i] # Unbound => acquired[i] = 1)
            /\ (run_args[i].called => stress_cmd[i] # Unbound /\ acquired[i] = 1)
            /\ (pending[i] # None => ~Did(i, "return"))
            /\ (pc[i] = "done" <=>
                  \/ (Len(tr) >= 1 /\ tr[Len(tr)] \in LastSteps)
                  \/ (Len(tr) >= 1 /\ tr[Len(tr)] = "exit_context"
                        /\ pending[i] # None))

C6_Witness ==
    \E i \in Invs :
        /\ pc[i] = "done"
        /\ trace[i] = <<"prepare", "provision", "translate", "build",
                        "enter_context", "enter_exporter", "enter_event",
                        "enter_try", "call_run", "run", "exit_event",
                        "exit_exporter",
                        "exit_context", "return">>

\* C7: every call that got as far as creating its context and has ended has
\* published exactly one outcome, a success or a failure.
C7_ExactlyOneOutcome ==
    \A i \in Invs :
        (pc[i] = "done" /\ Did(i, "prepare")) =>
            /\ Len(published[i]) = 1
            /\ published[i][1].kind \in {"success", "failure"}

\* ------------------------------------------------------------------------
\* Properties of create_stress_cmd
\* ------------------------------------------------------------------------

\* the indexes at which sub occurs in s, and their number
Occ(s, sub) == {k \in 1..(Len(s) - Len(sub) + 1) : StartsAt(s, k, sub)}

Count(s, sub) == Cardinality(Occ(s, sub))

\* s.endswith(suffix)
EndsWith(s, suffix) ==
    /\ Len(suffix) <= Len(s)
    /\ SubSeq(s, Len(s) - Len(suffix) + 1, Len(s)) = suffix

\* create_stress_cmd has returned for call i
Translated(i) == pc[i] \in {"translated", "retranslated"}

\* a command of the usual shape: its -schema flag, if any, is followed by a
\* space, and no rate value is directly followed by "="
Regular(cmd) == ~EndsWith(cmd, " -schema") /\ ~Contains(cmd, "/s=")

\* C8 as stated: translating the translated command gives the translated
\* command, whatever the command and the configuration.
C8_TranslateTwiceIsOnce ==
    \A i \in Invs :
        pc[i] = "retranslated" => again[i] = stress_cmd[i]

\* C8 amended: for commands of the usual shape, translating the translated
\* command changes nothing when keyspace_name is unset, or when it is set and
\* the translated command has no " -schema " clause; when keyspace_name is set
\* and the translated command has a " -schema " clause, translating it again
\* injects keyspace=<name> once more.
C8_IdempotentUnlessNameInjected ==
    \A i \in Invs :
        (pc[i] = "retranslated" /\ Regular(self.stress_cmd)) =>
            LET out == stress_cmd[i]
                inj == "keyspace=" \o self.keyspace_name \o " "
            IN  IF self.keyspace_name # "" /\ Contains(out, " -schema ")
                THEN /\ again[i] # out
                     /\ Count(again[i], inj) > Count(out, inj)
                ELSE again[i] = out

C8_Witness ==
    \E i \in Invs :
        /\ pc[i] = "retranslated"
        /\ self.keyspace_name = ""
        /\ Contains(self.stress_cmd, "-rate fixed=500/s")
        /\ Contains(stress_cmd[i], "-rate throttle=500/s fixed")
        /\ self.node_list # <<>>
        /\ again[i] = stress_cmd[i]

\* the value of the keyspace= assignment that starts at index k of s
KeyspaceValueAt(s, k) == SubSeq(s, k + 9, SkipWhile(s, k + 9, WordChars) - 1)

\* the values assigned by the keyspace= assignments of s
KeyspaceValues(s) == {KeyspaceValueAt(s, k) : k \in Occ(s, "keyspace=")}

\* how many keyspace= assignments of s assign v
KeyspaceCount(s, v) ==
    Cardinality({k \in Occ(s, "keyspace=") : KeyspaceValueAt(s, k) = v})

\* in every " -schema " clause of out the first keyspace assignment is
\* keyspace=<v>, and it stands at the head of the clause (after the
\* compaction fragment, when that was injected too)
InjectedFirst(out, v, compaction_strategy) ==
    \A k \in Occ(out, " -schema ") :
        LET j == Find(out, "keyspace=", k)
        IN  /\ j # 0
            /\ StartsAt(out, j, "keyspace=" \o v \o " ")
            /\ \/ j = k + 9
               \/ SubSeq(out, k + 9, j - 1)
                    = "'compaction(strategy=" \o compaction_strategy \o ")' "

\* C9: a configured keyspace_name is injected at the head of the schema
\* clause, before any keyspace= the command has; without a configured name a
\* command that has a keyspace= gets none injected and keeps its own; only
\* with neither is keyspace=keyspace<keyspace_idx> injected. Nothing else
\* adds, drops or changes a keyspace assignment.
C9_KeyspacePriority ==
    \A i \in Invs :
        Translated(i) =>
            LET given == self.stress_cmd
                out == stress_cmd[i]
                name == self.keyspace_name
                default == "keyspace" \o IntToStr(ident[i].keyspace_idx)
                injected == IF name # "" THEN name
                            ELSE IF ~Contains(given, "keyspace=") THEN default
                            ELSE ""
                clauses == Count(given, " -schema ")
            IN  /\ (injected # "" /\ clauses > 0) =>
                      InjectedFirst(out, injected, self.compaction_strategy)
                /\ \A v \in KeyspaceValues(given) \cup KeyspaceValues(out)
                               \cup {name, default} :
                      KeyspaceCount(out, v) =
                          KeyspaceCount(given, v)
                              + (IF v = injected /\ v # "" THEN clauses ELSE 0)

C9_Witness ==
    \E i \in Invs :
        /\ Translated(i)
        /\ self.keyspace_name = "ks1"
        /\ Contains(self.stress_cmd, " -schema keyspace=foo ")
        /\ Contains(stress_cmd[i], " -schema keyspace=ks1 keyspace=foo ")

\* C10: " -node " and the comma-joined addresses are appended exactly when
\* node_list is non-empty and the command has no -node flag; then the command
\* ends with the clause, the addresses in list order; otherwise the -node
\* rule leaves the command as the earlier rules made it, so that a command
\* with a -node flag keeps that one flag.
C10_ExistingNodeFlagWins ==
    \A i \in Invs :
        Translated(i) =>
            LET given == self.stress_cmd
                out == stress_cmd[i]
                addresses == Join(self.node_list, ",")
                dc == dc_get(dc_map, LoaderRegion)
                appended == Count(out, "-node") = Count(given, "-node") + 1
            IN  /\ out # Unbound
                /\ appended <=> (self.node_list # <<>> /\ Count(given, "-node") = 0)
                /\ ~appended => /\ Count(out, "-node") = Count(given, "-node")
                                /\ out = before_node_rule(self, ident[i].keyspace_idx)
                /\ appended =>
                      /\ Count(out, "-node") = 1
                      /\ \/ EndsWith(out, " -node " \o addresses)
                         \/ /\ self.multi_region
                            /\ dc # ""
                            /\ EndsWith(out, " -node datacenter=" \o dc \o " "
                                                 \o addresses)

C10_Witness ==
    \E i \in Invs :
        /\ Translated(i)
        /\ Len(self.node_list) = 2
        /\ Contains(self.stress_cmd, "-node 10.0.0.9")
        /\ Count(stress_cmd[i], "-node") = 1
        /\ EndsWith(stress_cmd[i], "-node 10.0.0.9")

\* the indexes at which lit occurs in s, letter case ignored (lit in lower
\* case)
OccNoCase(s, lit) == {k \in 1..Len(s) : StartsAtNoCase(s, k, lit)}

\* the optional sections of a command line
Sections == {"-schema", "-col", "-rate", "-pop"}

\* C11: a section the command lacks is not in the translated command either,
\* and the rule of a lacking section rewrites nothing: without -schema no
\* keyspace or compaction fragment is added, without -col no n=fixed(k) is
\* rewritten, without -rate no fixed=N/s, without -pop no seq=a..b.
C11_NoSectionIntroduced ==
    \A i \in Invs :
        Translated(i) =>
            LET given == self.stress_cmd
                out == stress_cmd[i]
                same(sub) == Count(out, sub) = Count(given, sub)
            IN  /\ \A f \in Sections : ~Contains(given, f) => ~Contains(out, f)
                /\ ~Contains(given, "-schema") =>
                      same("keyspace=") /\ same("compaction(")
                /\ ~Contains(given, "-col") =>
                      Cardinality(OccNoCase(out, "fixed("))
                          = Cardinality(OccNoCase(given, "fixed("))
                /\ ~Contains(given, "-rate") =>
                      same(" fixed=") /\ same("throttle=")
                /\ ~Contains(given, "-pop") =>
                      same(" seq=") /\ same("dist=SEQ(")

C11_Witness ==
    \E i \in Invs :
        /\ Translated(i)
        /\ \A f \in Sections : ~Contains(self.stress_cmd, f)
        /\ Contains(self.stress_cmd, " n=FIXED(5) fixed=5/s seq=1..2")
        /\ Contains(stress_cmd[i], " n=FIXED(5) fixed=5/s seq=1..2")
        /\ self.keyspace_name # ""
        /\ self.compaction_strategy # ""

\* a legacy rate specification fixed=<N>/s starts at index k of s: [one past
\* it, or 0 if none starts there; where its <N> starts]
LegacyRateAt(s, k) ==
    LET d == SkipWhile(s, k + 6, SpaceChars)
        e == SkipWhile(s, d, DigitChars)
    IN  IF StartsAt(s, k, "fixed=") /\ e > d /\ StartsAt(s, e, "/s")
        THEN [end |-> e + 2, value |-> SubSeq(s, d, e - 1)]
        ELSE [end |-> 0, value |-> ""]

\* where the legacy rate specifications of s start
LegacyRates(s) == {k \in 1..Len(s) : LegacyRateAt(s, k).end # 0}

\* the legacy rate specifications of s that a space stands before
SpacedRates(s) == {k \in LegacyRates(s) : Ch(s, k - 1) = " "}

\* where the words end that directly follow the tool name and a space (one
\* past the word)
CommandWordEnds(s) ==
    {SkipWhile(s, k + Len(ToolName) + 1, WordChars) :
        k \in {j \in Occ(s, ToolName \o " ") :
                  Ch(s, j + Len(ToolName) + 1) \in WordChars}}

\* no legacy rate specification of s is followed by "=" when a space stands
\* before it, and none has its "fixed" at the end of the word that follows
\* the tool name
RatesStandAlone(s) ==
    /\ \A k \in SpacedRates(s) : Ch(s, LegacyRateAt(s, k).end) # "="
    /\ \A k \in LegacyRates(s) : (k + 5) \notin CommandWordEnds(s)

\* C12 as stated: of a command with a -rate section the translated command
\* has no fixed=<N>/s left, and for each one the command had it has
\* throttle=<N>/s fixed with the same N.
C12_EveryLegacyRateRewritten ==
    \A i \in Invs :
        LET given == self.stress_cmd
            out == stress_cmd[i]
        IN  (Translated(i) /\ Contains(given, "-rate")) =>
                /\ LegacyRates(out) = {}
                /\ \A k \in LegacyRates(given) :
                      Contains(out, " throttle=" \o LegacyRateAt(given, k).value
                                        \o "/s fixed")

\* C12 amended: of a command with a -rate section, the legacy rate
\* specifications that a space stands before are rewritten to
\* throttle=<N>/s fixed with the same N, one throttle= more for each, and the
\* others (after a tab, a quote, any other character) are kept as they are,
\* so that a fixed=<N>/s left in the translated command has no space before
\* it; this for commands in which no rewritten specification is followed by
\* "=" and none has its "fixed" at the end of the word after the tool name.
C12_LegacyRateRewritten ==
    \A i \in Invs :
        LET given == self.stress_cmd
            out == stress_cmd[i]
        IN  (Translated(i) /\ Contains(given, "-rate") /\ RatesStandAlone(given)) =>
                /\ SpacedRates(out) = {}
                /\ Cardinality(LegacyRates(out))
                      = Cardinality(LegacyRates(given) \ SpacedRates(given))
                /\ \A k \in SpacedRates(given) :
                      Contains(out, " throttle=" \o LegacyRateAt(given, k).value
                                        \o "/s fixed")
                /\ Count(out, "throttle=")
                      = Count(given, "throttle=") + Cardinality(SpacedRates(given))

C12_Witness ==
    \E i \in Invs :
        /\ Translated(i)
        /\ Contains(self.stress_cmd, "-rate 'fixed=7/s' threads=2 fixed=8/s")
        /\ RatesStandAlone(self.stress_cmd)
        /\ Contains(stress_cmd[i], "-rate 'fixed=7/s' threads=2 throttle=8/s fixed")
        /\ SpacedRates(stress_cmd[i]) = {}
        /\ Cardinality(LegacyRates(stress_cmd[i])) = 1

\* C18: when the -node rule applies in a multi-region topology and the
\* lookup has no datacenter for the loader's region, the translation still
\* returns: one error is logged, the command ends with " -node " and the
\* comma-joined addresses, and no datacenter= is written; when the lookup has
\* a name, nothing is logged and datacenter=<name> stands between -node and
\* the addresses.
C18_MissingDatacenterIsNotFatal ==
    \A i \in Invs :
        LET given == self.stress_cmd
            out == stress_cmd[i]
            dc == dc_get(dc_map, LoaderRegion)
            addresses == Join(self.node_list, ",")
            logged == create_stress_cmd_errors(self, ident[i].keyspace_idx, dc)
        IN  (/\ Translated(i)
             /\ self.multi_region
             /\ self.node_list # <<>>
             /\ ~Contains(given, "-node")) =>
                IF dc = ""
                THEN /\ Len(logged) = 1
                     /\ EndsWith(out, " -node " \o addresses)
                     /\ Count(out, "datacenter=") = Count(given, "datacenter=")
                ELSE /\ logged = <<>>
                     /\ EndsWith(out, " -node datacenter=" \o dc \o " " \o addresses)
                     /\ Count(out, "datacenter=") = Count(given, "datacenter=") + 1

C18_Witness ==
    \E i \in Invs :
        /\ Translated(i)
        /\ self.multi_region
        /\ Len(self.node_list) = 2
        /\ dc_get(dc_map, LoaderRegion) = ""
        /\ ~Contains(self.stress_cmd, "-node")
        /\ EndsWith(stress_cmd[i], " -node 10.0.0.1,10.0.0.2")
        /\ ~Contains(stress_cmd[i], "datacenter=")

\* ------------------------------------------------------------------------
\* Further properties of _run_cs_stress
\* ------------------------------------------------------------------------

\* C14: the timeout handed to the remote run is the local hard_timeout; it
\* is at least the timeout of the soft-timeout scope, which is the configured
\* timeout; and it is determined by that timeout alone: the margin is the one
\* integer m with 20 * m <= soft < 20 * (m + 1), whatever the command, the
\* identity and the other settings are.
C14_HardAtLeastSoft ==
    \A i \in Invs :
        run_args[i].called =>
            LET m == run_args[i].timeout - soft_timeout[i]
            IN  /\ soft_timeout[i] = self.timeout
                /\ run_args[i].timeout = hard_timeout[i]
                /\ run_args[i].timeout >= soft_timeout[i]
                /\ 20 * m <= soft_timeout[i]
                /\ soft_timeout[i] < 20 * (m + 1)

C14_Witness ==
    \E i \in Invs :
        /\ run_args[i].called
        /\ soft_timeout[i] = 20
        /\ run_args[i].timeout = 21
        /\ self.stress_num = 2

\* the step named step is in the history of call i at index k
StepAt(i, step) == {k \in 1..Len(trace[i]) : trace[i][k] = step}

\* C15 as stated: the outcome published for a call carries the translated
\* command, the one that was run remotely, and the log file of the call.
C15_EventTaggedWithTranslated ==
    \A i \in Invs :
        Len(published[i]) > 0 =>
            /\ published[i][1].stress_cmd = stress_cmd[i]
            /\ published[i][1].log_file_name = log_file_name[i]

\* C15 amended: the outcome published for a call carries the thread's
\* original command (self.stress_cmd) and the log file of the call; the
\* translated command is the one run remotely, it is part of the command
\* line handed to cmd_runner.run together with the same log file.
C15_EventTaggedWithOriginal ==
    \A i \in Invs :
        /\ Len(published[i]) > 0 =>
              /\ published[i][1].stress_cmd = self.stress_cmd
              /\ published[i][1].log_file_name = log_file_name[i]
        /\ run_args[i].called =>
              /\ EndsWith(run_args[i].cmd, stress_cmd[i])
              /\ run_args[i].log_file = log_file_name[i]
              /\ cs_stress_event[i].stress_cmd = self.stress_cmd
              /\ cs_stress_event[i].log_file_name = log_file_name[i]

C15_Witness ==
    \E i \in Invs :
        /\ pc[i] = "done"
        /\ Len(published[i]) = 1
        /\ published[i][1].kind = "success"
        /\ published[i][1].stress_cmd = self.stress_cmd
        /\ Contains(stress_cmd[i], " no-warmup ")
        /\ ~Contains(published[i][1].stress_cmd, "no-warmup")

\* C16: once a call has ended, every context it created has been released,
\* also when a step between line 123 and the with block raised.
C16_NoContextLeaked ==
    \A i \in Invs :
        pc[i] = "done" => released[i] = acquired[i]

\* C17 as stated: when the event of a call is finalized the context of the
\* call has been torn down.
C17_TeardownBeforeEventFinalized ==
    \A i \in Invs :
        cs_stress_event[i].state = "finalized" => released[i] = 1

\* C17 amended: the with statement leaves its scopes in reverse order: the
\* event is finalized and published first, then the exporter is left, and
\* the context is torn down last, on every path through the block.
C17_EventFinalizedBeforeTeardown ==
    \A i \in Invs :
        /\ (released[i] = 1 /\ Did(i, "enter_event")) =>
              /\ cs_stress_event[i].state = "finalized"
              /\ Len(published[i]) = 1
        /\ (released[i] = 1 /\ Did(i, "enter_exporter")) => exporter[i] = "exited"
        /\ \A c \in StepAt(i, "exit_context"), x \in StepAt(i, "exit_exporter"),
              v \in StepAt(i, "exit_event") : v < x /\ x < c
        /\ (cs_stress_event[i].state = "finalized" /\ pc[i] = "exit_exporter") =>
              released[i] = 0

C17_Witness ==
    \E i \in Invs :
        /\ pc[i] = "exit_context"
        /\ caught[i] = "UnexpectedExit"
        /\ cs_stress_event[i].state = "finalized"
        /\ Len(published[i]) = 1
        /\ released[i] = 0

\* ------------------------------------------------------------------------
\* Properties of concurrent calls
\* ------------------------------------------------------------------------

\* C13: the log file of a call lies in the log directory of its loader, is
\* named after the tool, the subcommand and the identity tuple, and is the
\* file handed to cmd_runner.run; calls with the same tuple get the same
\* path, calls with distinct tuples get distinct paths, so that two
\* concurrent calls with distinct tuples never write to one file.
C13_DistinctIdentitiesDistinctLogs ==
    \A i \in Invs :
        log_file_name[i] # "" =>
            /\ StartsAt(log_file_name[i], 1,
                        LoaderLogdir(ident[i].loader_idx)
                            \o "/cql-stress-cassandra-stress-"
                            \o stress_cmd_opt(self.stress_cmd) \o "-")
            /\ EndsWith(log_file_name[i], ".log")
            /\ run_args[i].called => run_args[i].log_file = log_file_name[i]
            /\ \A j \in Invs \ {i} :
                  log_file_name[j] # "" =>
                      (ident[i] = ident[j] <=> log_file_name[i] = log_file_name[j])

C13_Witness ==
    /\ ident[1].loader_idx = ident[2].loader_idx
    /\ ident[1].keyspace_idx # ident[2].keyspace_idx
    /\ pc[1] = "running"
    /\ pc[2] = "running"
    /\ run_args[1].log_file # run_args[2].log_file
    /\ log_file_name[1] # log_file_name[2]

\* what a call would compute if it ran alone: log path, translated command
\* and node command of the identity id for the thread configuration cfg
Alone(cfg, id) ==
    LET translated == create_stress_cmd(cfg, id.keyspace_idx,
                                        dc_get(dc_map, LoaderRegion))
    IN  [log_file_name |-> log_file_name_of(cfg.stress_cmd, id),
         stress_cmd |-> translated,
         node_cmd |-> node_cmd_of(cfg.stress_num, id, translated)]

\* a step leaves the locals of every call that did not take it as they are
OthersUntouched ==
    \A i \in Invs :
        pc'[i] = pc[i] =>
            /\ log_file_name'[i] = log_file_name[i]
            /\ stress_cmd'[i] = stress_cmd[i]
            /\ node_cmd'[i] = node_cmd[i]
            /\ run_args'[i] = run_args[i]
            /\ cs_stress_event'[i] = cs_stress_event[i]

\* a local a step assigns gets the value the call would compute alone
AssignedAsIfAlone ==
    \A i \in Invs :
        /\ log_file_name'[i] # log_file_name[i] =>
              log_file_name'[i] = Alone(self, ident[i]).log_file_name
        /\ stress_cmd'[i] # stress_cmd[i] =>
              stress_cmd'[i] = Alone(self, ident[i]).stress_cmd
        /\ node_cmd'[i] # node_cmd[i] =>
              /\ node_cmd'[i] = Alone(self, ident[i]).node_cmd
              /\ StartsAt(node_cmd'[i], 1, "echo " \o tag_of(ident[i]) \o ";")

\* C19: no step of a call changes the thread's command or configuration or
\* the locals of another call, and under every interleaving the log path,
\* the translated command and the tagged node command a call assigns are
\* those the call computes alone from the original command and its own
\* identity.
C19_CallsShareNoMutableState ==
    [][/\ self' = self
       /\ dc_map' = dc_map
       /\ ident' = ident
       /\ OthersUntouched
       /\ AssignedAsIfAlone]_vars

C19_Witness ==
    /\ pc[1] = "done"
    /\ pc[2] = "done"
    /\ outcome[1].kind = "returned"
    /\ outcome[2].kind = "returned"
    /\ ident[1] # ident[2]
    /\ stress_cmd[1] # stress_cmd[2]
    /\ Contains(stress_cmd[1], "keyspace=keyspace1")
    /\ Contains(stress_cmd[2], "keyspace=keyspace2")

====
